---- MODULE Spec2Model ----
(***************************************************************************)
(* Model of the macOS spotlight-style overlay of                           *)
(* ahkohd/tauri-macos-spotlight-example (src-tauri/src/spotlight.rs and    *)
(* src-tauri/src/accessibility.rs).                                        *)
(*                                                                         *)
(* Lengths are integers counted in half points, so that a frame of 1.5     *)
(* points is the integer 3; a backing scale factor is 1 or 2.  Optional    *)
(* values (Option<T>, a nullable pointer, a dictionary key that may be     *)
(* missing) are sequences of length 0 or 1.                                *)
(***************************************************************************)
EXTENDS Integers, Sequences, FiniteSets, TLC

\* ------------------------------------------------------------------ bounds
MaxScreens == 2
MaxCoord == 4
MaxWindows == 2

\* ------------------------------------------------------- program constants
FloatingWindowLevel == 3
MainMenuWindowLevel == 24

\* ---------------------------------------------------------------- options
None == <<>>
Some(v) == <<v>>
IsSome(o) == Len(o) = 1
Unwrap(o) == o[1]

\* ------------------------------------------------------------ input sets
Scales == {1, 2}
Rects == [x : {0, MaxCoord - 1, MaxCoord}, y : {0, -2}, w : {MaxCoord - 1, MaxCoord},
          h : {MaxCoord}, scale : Scales]
Points == [x : {0, MaxCoord - 1, MaxCoord, 2 * MaxCoord - 1, 2 * MaxCoord},
           y : {-2, 0, MaxCoord}]
SeqsUpTo(S, n) == UNION {[1..k -> S] : k \in 0..n}
ScreenLists == SeqsUpTo(Rects, MaxScreens)

\* ------------------------------------------------- get_monitor_with_cursor
\* Point-in-rect test of AppKit for a non-flipped coordinate system: the
\* left and the top edge belong to the rect, the right and the bottom edge
\* do not.
NSMouseInRect(aPoint, aRect) ==
    /\ aPoint.x >= aRect.x
    /\ aPoint.x < aRect.x + aRect.w
    /\ aPoint.y > aRect.y
    /\ aPoint.y <= aRect.y + aRect.h

\* `(v * scale_factor) as i32`: v is in half points, the product is
\* truncated toward zero.
AsI32(v, scale) ==
    IF v * scale >= 0 THEN (v * scale) \div 2 ELSE -((-(v * scale)) \div 2)

\* `(v * scale_factor) as u32`: truncated, and a negative value saturates
\* to 0.
AsU32(v, scale) ==
    IF v * scale >= 0 THEN (v * scale) \div 2 ELSE 0

\* PhysicalSize::to_logical: pixels divided by the scale factor, given back
\* in half points.
ToLogical(px, scale) == (2 * px) \div scale

\* The loop without its break on a match: the last screen whose frame holds
\* the mouse location wins.
RECURSIVE FrameWithCursorNoBreak(_, _, _)
FrameWithCursorNoBreak(scr, pt, i) ==
    IF i > Len(scr) THEN 0
    ELSE LET later == FrameWithCursorNoBreak(scr, pt, i + 1)
         IN  IF later # 0 THEN later
             ELSE IF NSMouseInRect(pt, scr[i]) THEN i ELSE 0

\* The loop over the screen enumerator: the index of the first screen whose
\* frame holds the mouse location, 0 when the enumerator runs out.
RECURSIVE FrameWithCursor(_, _, _)
FrameWithCursor(scr, pt, i) ==
    IF i > Len(scr) THEN 0
    ELSE IF NSMouseInRect(pt, scr[i]) THEN i
    ELSE FrameWithCursor(scr, pt, i + 1)

\* The Monitor built from screen i (next_screen) and its frame.
MonitorOf(scr, i) ==
    [name |-> i,
     position |-> [x |-> AsI32(scr[i].x, scr[i].scale), y |-> AsI32(scr[i].y, scr[i].scale)],
     size |-> [width |-> AsU32(scr[i].w, scr[i].scale), height |-> AsU32(scr[i].h, scr[i].scale)],
     scale_factor |-> scr[i].scale]

get_monitor_with_cursor(scr, pt) ==
    LET i == FrameWithCursor(scr, pt, 1)
    IN  IF i = 0 THEN None ELSE Some(MonitorOf(scr, i))

\* -------------------------------------------------------- get_window_behind
\* One dictionary of the window list: present is FALSE for a null array
\* entry; pid, wid, layer and width are None when the key is missing, its
\* value is null or its conversion fails; named tells whether the owner
\* name key is there.
Layers == {FloatingWindowLevel - 1, FloatingWindowLevel, MainMenuWindowLevel,
           MainMenuWindowLevel + 1}
WinWidths == {MaxCoord - 1, MaxCoord}
WinIds == {1, 2}
ReadableRecords ==
    [present : {TRUE}, pid : {Some(1)}, wid : {Some(i) : i \in WinIds},
     layer : {Some(l) : l \in Layers}, width : {Some(w) : w \in WinWidths},
     named : BOOLEAN]
BaseRecord ==
    [present |-> TRUE, pid |-> Some(2), wid |-> Some(1),
     layer |-> Some(FloatingWindowLevel - 1), width |-> Some(MaxCoord), named |-> TRUE]
DamagedRecords ==
    {[BaseRecord EXCEPT !.present = FALSE],
     [BaseRecord EXCEPT !.pid = None],
     [BaseRecord EXCEPT !.wid = None],
     [BaseRecord EXCEPT !.layer = None],
     [BaseRecord EXCEPT !.width = None]}
Records == ReadableRecords \cup DamagedRecords
WindowLists == [isNull : BOOLEAN, recs : SeqsUpTo(Records, MaxWindows)]

\* The displays and mouse locations get_window_behind is tried on.
WBRects == [x : {0}, y : {0}, w : {MaxCoord - 1, MaxCoord}, h : {MaxCoord}, scale : Scales]
WBScreenLists == SeqsUpTo(WBRects, 1)
WBPoints == {[x |-> 1, y |-> 1], [x |-> 2 * MaxCoord, y |-> 1]}

IsFullscreenWindow(window_layer, screen_width, rect_width) ==
    window_layer > MainMenuWindowLevel /\ screen_width = rect_width

\* The regular-window test with the floating level let in.
IsRegularWindowInclusive(window_layer) == window_layer <= FloatingWindowLevel

IsRegularWindow(window_layer) == window_layer < FloatingWindowLevel

\* The four reads of one dictionary, each of which skips the record.
RecordReadable(r) ==
    /\ r.present
    /\ IsSome(r.pid)
    /\ IsSome(r.wid)
    /\ IsSome(r.layer)
    /\ IsSome(r.width)

WBResult(kind, owner_id, window_id) ==
    [kind |-> kind, owner_id |-> owner_id, window_id |-> window_id]

\* The loop over the window list from index i on.
RECURSIVE ScanWindowList(_, _, _)
ScanWindowList(recs, i, screen_width) ==
    IF i > Len(recs) THEN WBResult("NoWindowBehind", 0, 0)
    ELSE IF ~RecordReadable(recs[i]) THEN ScanWindowList(recs, i + 1, screen_width)
    ELSE IF \/ IsFullscreenWindow(Unwrap(recs[i].layer), screen_width, Unwrap(recs[i].width))
            \/ IsRegularWindow(Unwrap(recs[i].layer))
         THEN IF recs[i].named
              THEN WBResult("Ok", Unwrap(recs[i].pid), Unwrap(recs[i].wid))
              ELSE WBResult("panic", 0, 0)
    ELSE ScanWindowList(recs, i + 1, screen_width)

\* get_window_behind on the displays scr, the mouse location pt and the
\* window list wl the window server hands out.  kind is "panic" where an
\* unwrap() of None aborts the call.
get_window_behind(scr, pt, wl) ==
    LET m == get_monitor_with_cursor(scr, pt)
    IN  IF ~IsSome(m) THEN WBResult("panic", 0, 0)
        ELSE IF wl.isNull THEN WBResult("CouldNotGetWindowsList", 0, 0)
        ELSE ScanWindowList(wl.recs, 1,
                 ToLogical(Unwrap(m).size.width, Unwrap(m).scale_factor))

\* ------------------------------------------------------------ get_axwindow
\* The accessibility windows of one application, as the ids
\* _AXUIElementGetWindow reads from them: None where the read fails.
MaxAXWindows == 2
AXEntries == {None} \cup {Some(i) : i \in WinIds}
AXWindowArrays == SeqsUpTo(AXEntries, MaxAXWindows)
\* AXUIElementCopyAttributeValue fails, succeeds with a null value, or
\* succeeds with an array.
CopyOutcomes == {"error", "null", "ok"}

Ev(op, obj) == [op |-> op, obj |-> obj]

\* The loop over the windows array from index i on: the index of the first
\* element whose window id is readable and equals window_id, 0 if none.
RECURSIVE FindAXWindow(_, _, _)
FindAXWindow(arr, i, window_id) ==
    IF i > Len(arr) THEN 0
    ELSE IF ~IsSome(arr[i]) THEN FindAXWindow(arr, i + 1, window_id)
    ELSE IF Unwrap(arr[i]) = window_id THEN i
    ELSE FindAXWindow(arr, i + 1, window_id)

\* What the null test of windows_ref does: both CFRelease calls are in its
\* block, the first of them on the null reference, which traps.
NullWindowsRef(events) ==
    [result |-> "crash", index |-> 0,
     events |-> events \o <<Ev("release", "null")>>]

\* get_axwindow as the list of reference-count events it performs and its
\* result.  appNull: AXUIElementCreateApplication gave null; copy: the
\* outcome of reading the windows attribute; arr: the windows array.
get_axwindow(appNull, copy, arr, window_id) ==
    IF appNull
    THEN [result |-> "CouldNotGetWindowArray", index |-> 0, events |-> <<>>]
    ELSE IF copy = "error"
    THEN [result |-> "CouldNotGetWindowsAccessibility", index |-> 0,
          events |-> <<Ev("create", "ax_application"), Ev("release", "ax_application")>>]
    ELSE IF copy = "null"
    THEN NullWindowsRef(<<Ev("create", "ax_application")>>)
    ELSE LET i == FindAXWindow(arr, 1, window_id)
             acquired == <<Ev("create", "ax_application"), Ev("copy", "windows_ref")>>
         IN  IF i # 0
             THEN [result |-> "Ok", index |-> i,
                   events |-> acquired \o <<Ev("retain", "ax_window"),
                                            Ev("release", "windows_ref"),
                                            Ev("release", "ax_application")>>]
             ELSE [result |-> "WindowNotFound", index |-> 0,
                   events |-> acquired \o <<Ev("release", "windows_ref"),
                                            Ev("release", "ax_application")>>]

NoAxw == [result |-> "none", events |-> <<>>]

\* ------------------------------------- bring_window_to_top and focus_window
St(step, ok) == [step |-> step, ok |-> ok]

\* bring_window_to_top without the early return after a rejected set of
\* the frontmost attribute.
bring_window_to_top_no_return(appNull, frontOk, mainOk) ==
    [ok |-> ~appNull /\ frontOk /\ mainOk,
     steps |-> <<St("frontmost", ~appNull /\ frontOk), St("main", mainOk)>>]

\* The steps bring_window_to_top runs and its result.  A null application
\* element is an illegal argument, which the set of the frontmost attribute
\* rejects.
bring_window_to_top(appNull, frontOk, mainOk) ==
    IF appNull \/ ~frontOk
    THEN [ok |-> FALSE, steps |-> <<St("frontmost", FALSE)>>]
    ELSE IF ~mainOk
    THEN [ok |-> FALSE, steps |-> <<St("frontmost", TRUE), St("main", FALSE)>>]
    ELSE [ok |-> TRUE, steps |-> <<St("frontmost", TRUE), St("main", TRUE)>>]

focus_window(raiseOk) == [ok |-> raiseOk, steps |-> <<St("raise", raiseOk)>>]

\* The condition of focus_window_behind: focus_window runs only after
\* bring_window_to_top returned Ok.
FocusSteps(appNull, frontOk, mainOk, raiseOk) ==
    LET b == bring_window_to_top(appNull, frontOk, mainOk)
    IN  IF b.ok THEN b.steps \o focus_window(raiseOk).steps ELSE b.steps

\* ------------------------------------------------------------------ Once
\* A guard that lets the closure run again once it has completed.
OnceRunsAgain(state) == state \in {"incomplete", "complete"}

\* std::sync::Once::call_once runs its closure only from the state
\* "incomplete".
OnceRuns(state) == state = "incomplete"

\* ------------------------------------------------------------ the program
\* The threads that run commands, the shortcut handler and the window event
\* handler.
Threads == {"t1", "t2"}
MaxActions == 3

\* The window lists and displays a hide action meets.
HideRecords ==
    {r \in ReadableRecords :
        /\ r.layer \in {Some(FloatingWindowLevel - 1), Some(FloatingWindowLevel)}
        /\ r.width = Some(MaxCoord)}
HideWindowLists == [isNull : BOOLEAN, recs : SeqsUpTo(HideRecords, 1)]
HideScreenLists == SeqsUpTo([x : {0}, y : {0}, w : {MaxCoord}, h : {MaxCoord}, scale : {2}], 1)
HidePoint == [x |-> 1, y |-> 1]

NoThread ==
    [pc |-> "idle", op |-> "none", owner_id |-> 0, window_id |-> 0,
     late |-> FALSE, scanned |-> FALSE, handle |-> 0, ax_window_ref |-> 0,
     app |-> "none", resolved |-> "none", trace |-> <<>>, sawVisible |-> FALSE,
     axw |-> NoAxw]

VARIABLES screens, mouse, monitor, monCalled, windows, behind, wbCalled,
          th, visible, overlayMid, once, bodyRuns, shortcutRegs, handlerRegs, initCalls,
          cached_windows, inserts, dropped, firstRet, nextHandle, started

monVars == <<screens, mouse, monitor, monCalled>>
wbVars == <<windows, behind, wbCalled>>
appVars == <<th, visible, overlayMid, once, bodyRuns, shortcutRegs, handlerRegs, initCalls,
             cached_windows, inserts, dropped, firstRet, nextHandle, started>>
vars == <<screens, mouse, monitor, monCalled, windows, behind, wbCalled,
          th, visible, overlayMid, once, bodyRuns, shortcutRegs, handlerRegs, initCalls,
          cached_windows, inserts, dropped, firstRet, nextHandle, started>>

\* The state of the application after construction, but for the overlay's
\* visibility: nothing initialised, nothing cached, every thread idle.
InitApp ==
    /\ th = [p \in Threads |-> NoThread]
    /\ overlayMid = None
    /\ once = "incomplete"
    /\ bodyRuns = 0
    /\ shortcutRegs = 0
    /\ handlerRegs = 0
    /\ initCalls = 0
    /\ cached_windows = [w \in WinIds |-> 0]
    /\ inserts = [w \in WinIds |-> 0]
    /\ dropped = {}
    /\ firstRet = [w \in WinIds |-> 0]
    /\ nextHandle = 1
    /\ started = 0

InitMon ==
    /\ screens \in ScreenLists
    /\ mouse \in Points
    /\ monitor = None
    /\ monCalled = FALSE
    /\ windows = [isNull |-> FALSE, recs |-> <<>>]
    /\ behind = WBResult("none", 0, 0)
    /\ wbCalled = FALSE
    /\ visible = TRUE
    /\ InitApp

MonCall ==
    /\ ~monCalled
    /\ monitor' = get_monitor_with_cursor(screens, mouse)
    /\ monCalled' = TRUE
    /\ UNCHANGED <<screens, mouse, wbVars, appVars>>

NextMon == MonCall

SpecMon == InitMon /\ [][NextMon]_vars

InitWB ==
    /\ screens \in WBScreenLists
    /\ mouse \in WBPoints
    /\ windows \in WindowLists
    /\ behind = WBResult("none", 0, 0)
    /\ wbCalled = FALSE
    /\ monitor = None
    /\ monCalled = FALSE
    /\ visible = TRUE
    /\ InitApp

WBCall ==
    /\ ~wbCalled
    /\ behind' = get_window_behind(screens, mouse, windows)
    /\ wbCalled' = TRUE
    /\ UNCHANGED <<screens, mouse, monitor, monCalled, windows, appVars>>

NextWB == WBCall

SpecWB == InitWB /\ [][NextWB]_vars
\* ------------------------------------------------------------ the actions
pureVars == <<screens, mouse, monitor, monCalled, windows, behind, wbCalled>>
initVars == <<once, bodyRuns, shortcutRegs, handlerRegs, initCalls>>
cacheVars == <<cached_windows, inserts, dropped, firstRet, nextHandle>>

Free(p) == th[p].pc \in {"idle", "done"}
Begin(op, pc) == [NoThread EXCEPT !.op = op, !.pc = pc]

\* A thread enters the command init_spotlight_window.
InitCommand(p) ==
    /\ Free(p)
    /\ started < MaxActions
    /\ started' = started + 1
    /\ initCalls' = initCalls + 1
    /\ th' = [th EXCEPT ![p] = Begin("init", "call_once")]
    /\ UNCHANGED <<pureVars, visible, overlayMid, once, bodyRuns, shortcutRegs, handlerRegs, cacheVars>>

\* INIT.call_once: the first caller runs the closure, a caller that comes
\* while it runs waits, a caller that comes after it returns at once, and a
\* caller that finds the Once poisoned panics.
CallOnce(p) ==
    /\ th[p].pc = "call_once"
    /\ once # "running"
    /\ IF OnceRuns(once)
       THEN /\ once' = "running"
            /\ bodyRuns' = bodyRuns + 1
            /\ th' = [th EXCEPT ![p].pc = "init_register"]
       ELSE /\ th' = [th EXCEPT ![p].pc = IF once = "poisoned" THEN "panic" ELSE "done"]
            /\ UNCHANGED <<once, bodyRuns>>
    /\ UNCHANGED <<pureVars, visible, overlayMid, shortcutRegs, handlerRegs, initCalls, cacheVars, started>>

\* The closure, first part: register_shortcut, whose unwrap() panics when
\* the shortcut manager refuses the registration, and
\* register_spotlight_window_backdrop.
InitRegister(p) ==
    /\ th[p].pc = "init_register"
    /\ \E registered \in BOOLEAN :
          IF registered
          THEN /\ shortcutRegs' = shortcutRegs + 1
               /\ handlerRegs' = handlerRegs + 1
               /\ th' = [th EXCEPT ![p].pc = "init_focus"]
               /\ UNCHANGED once
          ELSE /\ once' = "poisoned"
               /\ th' = [th EXCEPT ![p].pc = "panic"]
               /\ UNCHANGED <<shortcutRegs, handlerRegs>>
    /\ UNCHANGED <<pureVars, visible, overlayMid, bodyRuns, initCalls, cacheVars, started>>

\* The closure, second part: collection behaviour, window level, set_focus.
InitFocus(p) ==
    /\ th[p].pc = "init_focus"
    /\ visible' = TRUE
    /\ once' = "complete"
    /\ th' = [th EXCEPT ![p].pc = "done"]
    /\ UNCHANGED <<pureVars, overlayMid, bodyRuns, shortcutRegs, handlerRegs, initCalls, cacheVars, started>>

\* A thread enters the command hide_spotlight.
HideCommand(p) ==
    /\ Free(p)
    /\ started < MaxActions
    /\ started' = started + 1
    /\ th' = [th EXCEPT ![p] = Begin("hide", "get_window_behind")]
    /\ UNCHANGED <<pureVars, visible, overlayMid, initVars, cacheVars>>

\* position_window_at_the_center_of_the_monitor_with_cursor: twice the
\* midpoint, in logical half points, of the monitor under the cursor, on
\* which setFrame puts the midpoint of the overlay; the overlay stays where
\* it is (mid) when no monitor is under the cursor.
PositionWindow(scr, pt, mid) ==
    LET m == get_monitor_with_cursor(scr, pt)
    IN  IF IsSome(m)
        THEN Some([x |-> 2 * ToLogical(Unwrap(m).position.x, Unwrap(m).scale_factor)
                         + ToLogical(Unwrap(m).size.width, Unwrap(m).scale_factor),
                   y |-> 2 * ToLogical(Unwrap(m).position.y, Unwrap(m).scale_factor)
                         + ToLogical(Unwrap(m).size.height, Unwrap(m).scale_factor)])
        ELSE mid

\* The Cmd+k handler: centre the overlay, then hide_spotlight when the
\* overlay is visible, set_focus otherwise.
ShortcutHandler(p) ==
    /\ Free(p)
    /\ shortcutRegs > 0
    /\ started < MaxActions
    /\ started' = started + 1
    /\ \E scr \in HideScreenLists : overlayMid' = PositionWindow(scr, HidePoint, overlayMid)
    /\ IF visible
       THEN /\ th' = [th EXCEPT ![p] =
                         [Begin("shortcut", "get_window_behind") EXCEPT !.sawVisible = TRUE]]
            /\ UNCHANGED visible
       ELSE /\ th' = [th EXCEPT ![p] = Begin("shortcut", "done")]
            /\ visible' = TRUE
    /\ UNCHANGED <<pureVars, initVars, cacheVars>>

\* The window event handler on Focused(false): hide the overlay.
FocusLostHandler ==
    /\ handlerRegs > 0
    /\ visible' = FALSE
    /\ UNCHANGED <<pureVars, th, overlayMid, initVars, cacheVars, started>>

\* focus_window_behind, first step: get_window_behind on what the window
\* server shows now.
GetWindowBehind(p) ==
    /\ th[p].pc = "get_window_behind"
    /\ \E scr \in HideScreenLists, wl \in HideWindowLists :
          LET r == get_window_behind(scr, HidePoint, wl)
          IN  th' = [th EXCEPT ![p] =
                  [@ EXCEPT !.pc = CASE r.kind = "panic" -> "panic"
                                     [] r.kind = "Ok" -> "get_axuielements"
                                     [] OTHER -> "hide",
                            !.owner_id = r.owner_id,
                            !.window_id = r.window_id,
                            !.trace = <<St("find", r.kind = "Ok")>>]]
    /\ UNCHANGED <<pureVars, visible, overlayMid, initVars, cacheVars, started>>

\* get_axuielements, the first lock: is the window id cached?
GetAxuielements(p) ==
    /\ th[p].pc = "get_axuielements"
    /\ th' = [th EXCEPT ![p] =
                 [@ EXCEPT !.pc = IF cached_windows[th[p].window_id] # 0
                                  THEN "lookup" ELSE "cache_axwindow",
                           !.late = firstRet[th[p].window_id] # 0]]
    /\ UNCHANGED <<pureVars, visible, overlayMid, initVars, cacheVars, started>>

\* cache_axwindow, its own lock: is the window id cached?
CacheAxwindow(p) ==
    /\ th[p].pc = "cache_axwindow"
    /\ th' = [th EXCEPT ![p].pc = IF cached_windows[th[p].window_id] # 0
                                  THEN "lookup" ELSE "get_axwindow"]
    /\ UNCHANGED <<pureVars, visible, overlayMid, initVars, cacheVars, started>>

\* cache_axwindow, outside any lock: get_axwindow over the accessibility
\* windows of the owner (there is an array only when the application
\* element and the copy of its windows attribute are).  A found element is
\* a new object with one retain.
GetAxwindow(p) ==
    /\ th[p].pc = "get_axwindow"
    /\ \E appNull \in BOOLEAN, copy \in CopyOutcomes :
       \E arr \in IF ~appNull /\ copy = "ok" THEN AXWindowArrays ELSE {<<>>} :
          LET r == get_axwindow(appNull, copy, arr, th[p].window_id)
          IN  /\ th' = [th EXCEPT ![p] =
                     [@ EXCEPT !.pc = CASE r.result = "crash" -> "panic"
                                        [] r.result = "Ok" -> "insert"
                                        [] OTHER -> "lookup",
                               !.scanned = TRUE,
                               !.axw = [result |-> r.result, events |-> r.events],
                               !.handle = IF r.result = "Ok" THEN nextHandle ELSE 0,
                               !.trace = IF r.result = "crash"
                                         THEN @ \o <<St("resolve", FALSE)>> ELSE @]]
              /\ nextHandle' = IF r.result = "Ok" THEN nextHandle + 1 ELSE nextHandle
    /\ UNCHANGED <<pureVars, visible, overlayMid, initVars, cached_windows, inserts, dropped, firstRet, started>>

\* HashMap::insert under the lock: the entry is written whether or not the
\* key is there; a handle it replaces is dropped with its retain.
CacheInsert(cache, window_id, handle) == [cache EXCEPT ![window_id] = handle]

Insert(p) ==
    /\ th[p].pc = "insert"
    /\ cached_windows' = CacheInsert(cached_windows, th[p].window_id, th[p].handle)
    /\ inserts' = [inserts EXCEPT ![th[p].window_id] = @ + 1]
    /\ dropped' = IF cached_windows[th[p].window_id] # 0
                  THEN dropped \cup {cached_windows[th[p].window_id]} ELSE dropped
    /\ th' = [th EXCEPT ![p] = [@ EXCEPT !.pc = "lookup", !.handle = 0, !.axw = NoAxw]]
    /\ UNCHANGED <<pureVars, visible, overlayMid, initVars, firstRet, nextHandle, started>>

\* get_axuielements, the second lock: create the application element, then
\* read the cache.  A miss returns Err(WindowNotFound) through `?`, and the
\* application element is not released.
Lookup(p) ==
    /\ th[p].pc = "lookup"
    /\ \E appNull \in BOOLEAN :
          LET w == th[p].window_id
              hit == cached_windows[w] # 0
          IN  /\ th' = [th EXCEPT ![p] =
                     [@ EXCEPT !.pc = IF hit THEN "focus" ELSE "hide",
                               !.app = IF appNull THEN "null" ELSE "live",
                               !.axw = NoAxw,
                               !.ax_window_ref = cached_windows[w],
                               !.resolved = IF hit THEN "Ok" ELSE "WindowNotFound",
                               !.trace = @ \o <<St("resolve", hit)>>]]
              /\ firstRet' = IF hit /\ firstRet[w] = 0
                             THEN [firstRet EXCEPT ![w] = cached_windows[w]]
                             ELSE firstRet
    /\ UNCHANGED <<pureVars, visible, overlayMid, initVars, cached_windows, inserts, dropped, nextHandle, started>>

\* focus_window_behind, the body of the inner if: bring_window_to_top,
\* focus_window, then CFRelease of the application element, which traps on
\* a null element.
Focus(p) ==
    /\ th[p].pc = "focus"
    /\ \E frontOk \in BOOLEAN, mainOk \in BOOLEAN, raiseOk \in BOOLEAN :
          th' = [th EXCEPT ![p] =
              [@ EXCEPT !.trace = @ \o FocusSteps(th[p].app = "null", frontOk, mainOk, raiseOk),
                        !.pc = IF th[p].app = "null" THEN "panic" ELSE "hide",
                        !.app = IF th[p].app = "null" THEN "null" ELSE "released"]]
    /\ UNCHANGED <<pureVars, visible, overlayMid, initVars, cacheVars, started>>

\* hide_spotlight, last statement: window.hide().
Hide(p) ==
    /\ th[p].pc = "hide"
    /\ visible' = FALSE
    /\ th' = [th EXCEPT ![p].pc = "done"]
    /\ UNCHANGED <<pureVars, overlayMid, initVars, cacheVars, started>>

Next ==
    \/ \E p \in Threads : InitCommand(p)
    \/ \E p \in Threads : CallOnce(p)
    \/ \E p \in Threads : InitRegister(p)
    \/ \E p \in Threads : InitFocus(p)
    \/ \E p \in Threads : HideCommand(p)
    \/ \E p \in Threads : ShortcutHandler(p)
    \/ FocusLostHandler
    \/ \E p \in Threads : GetWindowBehind(p)
    \/ \E p \in Threads : GetAxuielements(p)
    \/ \E p \in Threads : CacheAxwindow(p)
    \/ \E p \in Threads : GetAxwindow(p)
    \/ \E p \in Threads : Insert(p)
    \/ \E p \in Threads : Lookup(p)
    \/ \E p \in Threads : Focus(p)
    \/ \E p \in Threads : Hide(p)

Init ==
    /\ screens = <<>>
    /\ mouse = HidePoint
    /\ monitor = None
    /\ monCalled = FALSE
    /\ windows = [isNull |-> FALSE, recs |-> <<>>]
    /\ behind = WBResult("none", 0, 0)
    /\ wbCalled = FALSE
    /\ visible \in BOOLEAN
    /\ InitApp

Spec == Init /\ [][Next]_vars
\* ================================================================ claims
\* Containment as the claims mean it: a display owns its left and top
\* edge, its neighbour owns the right and the bottom edge.
ContainsPoint(rect, pt) ==
    /\ rect.x <= pt.x /\ pt.x < rect.x + rect.w
    /\ rect.y < pt.y /\ pt.y <= rect.y + rect.h

Containing(scr, pt) == {i \in 1..Len(scr) : ContainsPoint(scr[i], pt)}
FirstOf(S) == CHOOSE i \in S : \A j \in S : i <= j

\* The logical width of the screen under the cursor, as get_window_behind
\* reads it from the Monitor.
ScreenWidthUnderCursor ==
    LET r == screens[FirstOf(Containing(screens, mouse))]
    IN  ToLogical(AsU32(r.w, r.scale), r.scale)

OutsideBand(r) ==
    /\ r.present
    /\ IsSome(r.layer)
    /\ (Unwrap(r.layer) < FloatingWindowLevel \/ Unwrap(r.layer) > MainMenuWindowLevel)

Eligible(r) ==
    /\ r.present /\ IsSome(r.pid) /\ IsSome(r.wid) /\ IsSome(r.layer) /\ IsSome(r.width)
    /\ \/ Unwrap(r.layer) < FloatingWindowLevel
       \/ Unwrap(r.layer) > MainMenuWindowLevel /\ Unwrap(r.width) = ScreenWidthUnderCursor

IsRecordOf(res, r) == r.pid = Some(res.owner_id) /\ r.wid = Some(res.window_id)

C2_MonitorOfFirstContainingRect ==
    monCalled =>
        LET c == Containing(screens, mouse)
        IN  IF c = {} THEN monitor = None
            ELSE /\ IsSome(monitor)
                 /\ Unwrap(monitor).name = FirstOf(c)
                 /\ Unwrap(monitor) = MonitorOf(screens, FirstOf(c))

\* The cursor is on the edge two adjacent displays share, and the second
\* display, which owns that edge, is the one returned.
C2_Witness ==
    /\ monCalled
    /\ Len(screens) = 2
    /\ mouse.x = screens[1].x + screens[1].w
    /\ mouse.x = screens[2].x
    /\ IsSome(monitor)
    /\ Unwrap(monitor).name = 2

\* C3: a hide-overlay action never crashes; no panic state is reachable
\* from hide_spotlight.
C3_HideNeverPanics ==
    \A p \in Threads : th[p].op \in {"hide", "shortcut"} => th[p].pc # "panic"

\* C4: once a call of get_axuielements for a window id has returned a
\* window reference, every call for that window id that starts later
\* returns that same reference and does not run the get_axwindow scan.
C4_LaterCallsReturnCached ==
    \A p \in Threads :
        (th[p].late /\ th[p].resolved = "Ok") =>
            /\ th[p].ax_window_ref = firstRet[th[p].window_id]
            /\ ~th[p].scanned

\* C5: the cache is insert-if-absent under every interleaving: at most one
\* insert per window id ever happens and no entry is overwritten, so no
\* retained handle is dropped from the map.
C5_InsertIfAbsent ==
    /\ \A w \in WinIds : inserts[w] <= 1
    /\ dropped = {}

Count(events, op, obj) ==
    Cardinality({i \in 1..Len(events) : events[i] = Ev(op, obj)})

\* C6: on every return path of get_axwindow each acquired handle is
\* released exactly once, no null reference is released, and the window
\* element holds one extra retain on success and none on an error return.
C6_BalancedReferenceCounts ==
    \A p \in Threads :
        th[p].axw.result # "none" =>
            LET e == th[p].axw.events
            IN  /\ Count(e, "release", "ax_application") = Count(e, "create", "ax_application")
                /\ Count(e, "release", "windows_ref") = Count(e, "copy", "windows_ref")
                /\ Count(e, "release", "null") = 0
                /\ Count(e, "retain", "ax_window") = IF th[p].axw.result = "Ok" THEN 1 ELSE 0

\* C7: every application element get_axuielements creates is released by
\* the end of the hide action that created it, whether get_axuielements
\* returned Ok or Err(WindowNotFound).
C7_AppElementReleased ==
    \A p \in Threads : th[p].pc = "done" => th[p].app # "live"

\* C8: over any number of sequential or concurrent init_spotlight_window
\* calls the setup body runs at most once, so the shortcut and the
\* focus-loss handler are never registered twice.
C8_InitOneShot ==
    /\ bodyRuns <= 1
    /\ shortcutRegs <= 1
    /\ handlerRegs <= 1

\* Both threads have called init_spotlight_window and returned, after one
\* run of the body.
C8_Witness ==
    /\ once = "complete"
    /\ bodyRuns = 1
    /\ \A p \in Threads : th[p].op = "init" /\ th[p].pc = "done"

StepOrder == <<"find", "resolve", "frontmost", "main", "raise">>

\* C9: within one hide action the steps find-window-behind, resolve-handle,
\* set-frontmost, set-main and raise each run at most once, in that order,
\* and a step runs only if every earlier step succeeded.
C9_StepsOnceInOrder ==
    \A p \in Threads :
        LET t == th[p].trace
        IN  /\ Len(t) <= Len(StepOrder)
            /\ \A i \in 1..Len(t) :
                  /\ t[i].step = StepOrder[i]
                  /\ (i < Len(t) => t[i].ok)

\* A hide action is over whose set-frontmost was rejected: nothing ran
\* after it.
C9_Witness ==
    \E p \in Threads :
        /\ th[p].pc = "done"
        /\ Len(th[p].trace) = 3
        /\ th[p].trace[3] = St("frontmost", FALSE)

\* C10: when the Cmd+k handler fires while the overlay is visible, the
\* overlay is hidden when the handler ends; when it fires while the overlay
\* is not visible, the overlay is shown and no focus handoff is attempted.
C10_ShortcutToggles ==
    [][\A p \in Threads :
          (/\ th[p].pc \notin {"done", "panic"} \/ th[p].op # "shortcut"
           /\ th'[p].op = "shortcut"
           /\ th'[p].pc \in {"done", "panic"}) =>
              IF th'[p].sawVisible THEN ~visible'
              ELSE visible' /\ th'[p].trace = <<>>]_vars

\* The positions of a thread inside hide_spotlight.
InHideSpotlight(p) ==
    th[p].pc \in {"get_window_behind", "get_axuielements", "cache_axwindow",
                  "get_axwindow", "insert", "lookup", "focus", "hide"}

\* C11: every hide_spotlight invocation ends with window.hide() executed
\* after the focus handoff attempt has finished, whatever the outcome of
\* the handoff: the step that ends an invocation is the hide itself, taken
\* from the position after focus_window_behind, and leaves the overlay
\* hidden.
C11_HideAlwaysExecuted ==
    [][\A p \in Threads :
          (InHideSpotlight(p) /\ th'[p].pc \in {"done", "panic"}) =>
              /\ th[p].pc = "hide"
              /\ th'[p].pc = "done"
              /\ ~visible']_vars

InBand(layer) == FloatingWindowLevel <= layer /\ layer <= MainMenuWindowLevel

\* C12: with the cursor on a screen, get_window_behind returns the first
\* record in list order that has owner pid, window number, layer and bounds
\* readable and a layer strictly below the floating level, or strictly
\* above the main-menu level with the width of the screen under the cursor;
\* a record with a layer from the floating level up to the main-menu level
\* is never returned, and NoWindowBehind is returned when no record is
\* selected.
C12_FirstSelectedRecordReturned ==
    (wbCalled /\ Containing(screens, mouse) # {} /\ ~windows.isNull) =>
        LET sel == {i \in 1..Len(windows.recs) : Eligible(windows.recs[i])}
        IN  IF sel = {} THEN behind.kind = "NoWindowBehind"
            ELSE /\ behind.kind = "Ok"
                 /\ IsRecordOf(behind, windows.recs[FirstOf(sel)])
                 /\ ~InBand(Unwrap(windows.recs[FirstOf(sel)].layer))
====
